---- MODULE Spec2Model ----
(***************************************************************************)
(* Model of scripts/process_timetable.py: the timetable consolidation      *)
(* pipeline of Pulse (parse_time, is_tuesday, process_schedule, main).     *)
(*                                                                         *)
(* Representation of Python values:                                        *)
(*   - a str whose characters the code inspects (time tokens, running      *)
(*     patterns, TIPLOC codes) is the sequence of its Unicode code points; *)
(*     Codes(<<"0", "8">>) writes such a str by its characters;            *)
(*   - other strs (uid, stp, toc, CRS, names) are TLA+ strings;            *)
(*   - an "int or None" result is << >> (None) or <<v>>;                   *)
(*   - a float coordinate is an integer number of 1e-6 degrees, standing   *)
(*     for the double nearest to that decimal.                             *)
(***************************************************************************)
EXTENDS Integers, Sequences, FiniteSets, TLC

VARIABLES pc, feed, schedules_by_uid, group_idx, trains, data,
          time_str, loc, time, prev, days, runs

vars == <<pc, feed, schedules_by_uid, group_idx, trains, data,
          time_str, loc, time, prev, days, runs>>

(***************************************************************************)
(* Bounds of the model.                                                    *)
(***************************************************************************)
MaxFeed == 3
MaxTokLen == 5
MaxDayLen == 8

(***************************************************************************)
(* Python primitives used by the code.                                     *)
(***************************************************************************)
None == << >>
Some(v) == <<v>>

\* ord(c) of the characters the model writes literally.
Ord ==
  ("\t" :> 9) @@ (" " :> 32) @@ ("+" :> 43) @@ ("-" :> 45) @@ ("0" :> 48)
    @@ ("1" :> 49) @@ ("2" :> 50) @@ ("3" :> 51) @@ ("4" :> 52) @@ ("5" :> 53)
    @@ ("6" :> 54) @@ ("7" :> 55) @@ ("8" :> 56) @@ ("9" :> 57) @@ (":" :> 58)
    @@ ("H" :> 72) @@ ("L" :> 76) @@ ("X" :> 88) @@ ("Y" :> 89) @@ ("_" :> 95)

\* The str made of the given characters, as code points.
Codes(chars) == [i \in 1..Len(chars) |-> Ord[chars[i]]]

\* None where the code expects a str (a JSON null, or a key that is missing
\* and read without a default): a one-element sequence that is the code
\* points of no str.
NoneStr == <<-1>>

\* The code point of the digit zero of every Unicode decimal-digit (Nd) run;
\* each run is ten consecutive code points, zero to nine.
NdZeros ==
  {48, 1632, 1776, 1984, 2406, 2534, 2662, 2790, 2918, 3046, 3174, 3302, 3430,
   3558, 3664, 3792, 3872, 4160, 4240, 6112, 6160, 6470, 6608, 6784, 6800,
   6992, 7088, 7232, 7248, 42528, 43216, 43264, 43472, 43504, 43600, 44016,
   65296, 66720, 68912, 69734, 69872, 69942, 70096, 70384, 70736, 70864,
   71248, 71360, 71472, 71904, 72016, 72784, 73040, 73120, 92768, 92864,
   93008, 120782, 120792, 120802, 120812, 120822, 123200, 123632, 125264,
   130032}

\* The characters int() reads as decimal digits.
Digit == UNION {z..(z + 9) : z \in NdZeros}

DigitVal(c) == c - (CHOOSE z \in NdZeros : c \in z..(z + 9))

\* The characters str.strip() removes (str.isspace).
Whitespace ==
  {9, 10, 11, 12, 13, 28, 29, 30, 31, 32, 133, 160, 5760, 8232, 8233, 8239,
   8287, 12288} \cup 8192..8202

\* The characters int() ignores around the number: the same, except the four
\* ASCII separators FS, GS, RS, US.
IntWhitespace == Whitespace \ 28..31

IsSpace(c) == c \in Whitespace

RECURSIVE LStrip(_, _)
LStrip(s, ws) == IF s # << >> /\ Head(s) \in ws THEN LStrip(Tail(s), ws) ELSE s

RECURSIVE RStrip(_, _)
RStrip(s, ws) ==
  IF s # << >> /\ s[Len(s)] \in ws
  THEN RStrip(SubSeq(s, 1, Len(s) - 1), ws) ELSE s

\* str.strip()
Strip(s) == RStrip(LStrip(s, Whitespace), Whitespace)

\* s[a:b] for 0 <= a <= b (Python slicing never raises)
Slice(s, a, b) ==
  LET hi == IF b < Len(s) THEN b ELSE Len(s)
  IN IF a >= hi THEN << >> ELSE SubSeq(s, a + 1, hi)

RECURSIVE DecVal(_)
DecVal(ds) ==
  IF ds = << >> THEN 0
  ELSE DecVal(SubSeq(ds, 1, Len(ds) - 1)) * 10 + DigitVal(ds[Len(ds)])

\* int(s): surrounding whitespace is ignored, one leading sign is accepted,
\* the rest must be decimal digits, with single underscores allowed between
\* two digits; anything else raises ValueError, modelled as None.
PyInt(s) ==
  LET t == RStrip(LStrip(s, IntWhitespace), IntWhitespace)
      signed == t # << >> /\ t[1] \in {Ord["+"], Ord["-"]}
      body == IF signed THEN Tail(t) ELSE t
      n == Len(body)
      wellFormed ==
        /\ n > 0
        /\ \A i \in 1..n :
             \/ body[i] \in Digit
             \/ /\ body[i] = Ord["_"]
                /\ 1 < i /\ i < n
                /\ body[i - 1] \in Digit /\ body[i + 1] \in Digit
      value == DecVal(SelectSeq(body, LAMBDA c : c \in Digit))
  IN IF ~wellFormed THEN None
     ELSE Some(IF signed /\ t[1] = Ord["-"] THEN 0 - value ELSE value)

\* bool(x) of an "int or None" value
Truthy(x) == x # None /\ x # Some(0)

\* a or b
PyOr(a, b) == IF Truthy(a) THEN a ELSE b

\* (x * 2^n) mod 10^6 for 0 <= x < 10^6, with the bit the last doubling
\* carried out of the fraction: <<remainder, carry>>.
RECURSIVE DoubleMod(_, _, _)
DoubleMod(x, carry, n) ==
  IF n = 0 THEN <<x, carry>>
  ELSE DoubleMod((2 * x) % 1000000, IF 2 * x >= 1000000 THEN 1 ELSE 0, n - 1)

\* The j with 1 <= (a / 10^6) * 2^j < 2, for a > 0.
RECURSIVE BinaryShift(_, _)
BinaryShift(a, j) ==
  IF a < 1000000 THEN BinaryShift(2 * a, j + 1)
  ELSE IF a >= 2000000 THEN BinaryShift(a \div 2, j - 1)
  ELSE j

\* The sign of double(a / 10^6) - a / 10^6 for a >= 0: on which side of the
\* decimal the nearest double (53-bit significand, ties to even) lies.
FloatError(a) ==
  LET scaled == DoubleMod(a % 1000000, 0, 52 + BinaryShift(a, 0))
      rem == scaled[1]
  IN IF a = 0 \/ rem = 0 THEN 0
     ELSE IF 2 * rem < 1000000 THEN -1
     ELSE IF 2 * rem > 1000000 THEN 1
     ELSE IF scaled[2] = 0 THEN -1 ELSE 1

\* round(x, n) of the double x nearest to v * 1e-6; unit = 10^(6-n).  Python
\* rounds the exact binary value of x: where the decimal v is halfway between
\* two multiples of unit, the side the double lies on decides, and only a
\* double that is exactly halfway goes to the even multiple.
PyRound(v, unit) ==
  LET a == IF v < 0 THEN 0 - v ELSE v
      q == a \div unit
      r == a % unit
      lo == q * unit
      hi == (q + 1) * unit
      err == FloatError(a)
      m == IF 2 * r < unit THEN lo
           ELSE IF 2 * r > unit THEN hi
           ELSE IF err < 0 THEN lo
           ELSE IF err > 0 THEN hi
           ELSE IF q % 2 = 0 THEN lo ELSE hi
  IN IF v < 0 THEN 0 - m ELSE m

(***************************************************************************)
(* Time Codec and Day-Pattern Selector.                                    *)
(***************************************************************************)
STP_PRIORITY(stp) ==
  CASE stp = "C" -> 4 [] stp = "N" -> 3 [] stp = "O" -> 2 [] stp = "P" -> 1
    [] OTHER -> 0

\* Variant of HalfMinute that does not look at the marker character.
HalfMinuteAnyTail(t) == IF Len(t) > 4 THEN 30 ELSE 0

HalfMinute(t) == IF Len(t) > 4 /\ t[5] = Ord["H"] THEN 30 ELSE 0

parse_time(ts) ==
  IF ts = NoneStr \/ ts = << >> \/ Strip(ts) = << >> THEN None
  ELSE LET t == Strip(ts)
           h == PyInt(Slice(t, 0, 2))
           m == PyInt(Slice(t, 2, 4))
       IN IF h = None \/ m = None THEN None
          ELSE Some(h[1] * 3600 + m[1] * 60 + HalfMinute(t))

\* Variant of is_tuesday that reads the first flag (Monday) of the vector.
is_monday(days_run) ==
  IF days_run = NoneStr \/ days_run = << >> \/ Len(days_run) < 7 THEN TRUE
  ELSE days_run[1] = Ord["1"]

is_tuesday(days_run) ==
  IF days_run = NoneStr \/ days_run = << >> \/ Len(days_run) < 7 THEN TRUE
  ELSE days_run[2] = Ord["1"]

(***************************************************************************)
(* Reference tables of one run (read-only): the CORPUS TIPLOC -> CRS map   *)
(* and the station table CRS -> {name, lat, lng}.  "DDD" is a CRS with no  *)
(* station row and "L9" a TIPLOC with no CORPUS row.  Alpha's latitude is  *)
(* halfway between two 5-place values and Bravo's longitude, once at 5     *)
(* places, halfway between two 4-place values.                             *)
(***************************************************************************)
L1 == Codes(<<"L", "1">>)
L2 == Codes(<<"L", "2">>)
L3 == Codes(<<"L", "3">>)
L4 == Codes(<<"L", "4">>)
L9 == Codes(<<"L", "9">>)
L2pad == Codes(<<"L", "2", "\t">>)

tiploc_to_crs == (L1 :> "AAA") @@ (L2 :> "BBB") @@ (L3 :> "CCC") @@ (L4 :> "DDD")

stations ==
  ("AAA" :> [name |-> "Alpha", lat |-> 51515435, lng |-> (0 - 175537)]) @@
  ("BBB" :> [name |-> "Bravo", lat |-> 52477818, lng |-> (0 - 1900052)]) @@
  ("CCC" :> [name |-> "Charlie", lat |-> 53477461, lng |-> 1307364])

KNOWN_OPERATORS ==
  ("NT" :> [name |-> "Northern Trains", color |-> "#262262"]) @@
  ("SE" :> [name |-> "Southeastern", color |-> "#009ddc"]) @@
  ("SR" :> [name |-> "ScotRail", color |-> "#1a5ba5"]) @@
  ("SW" :> [name |-> "South Western Railway", color |-> "#e11837"]) @@
  ("GW" :> [name |-> "Great Western Railway", color |-> "#0a493e"]) @@
  ("SN" :> [name |-> "Southern", color |-> "#8cc63e"]) @@
  ("LO" :> [name |-> "London Overground", color |-> "#ef7b10"]) @@
  ("AW" :> [name |-> "Transport for Wales", color |-> "#e4131b"]) @@
  ("LE" :> [name |-> "Greater Anglia", color |-> "#d70428"]) @@
  ("LM" :> [name |-> "West Midlands Trains", color |-> "#ff8300"]) @@
  ("TL" :> [name |-> "Thameslink", color |-> "#e83673"]) @@
  ("ME" :> [name |-> "Merseyrail", color |-> "#ffd500"]) @@
  ("XR" :> [name |-> "Elizabeth Line", color |-> "#9364cc"]) @@
  ("TP" :> [name |-> "TransPennine Express", color |-> "#00a4e4"]) @@
  ("EM" :> [name |-> "East Midlands Railway", color |-> "#6b2c91"]) @@
  ("VT" :> [name |-> "Avanti West Coast", color |-> "#e4131b"]) @@
  ("CC" :> [name |-> "c2c", color |-> "#b71c8e"]) @@
  ("GN" :> [name |-> "Great Northern", color |-> "#e83673"]) @@
  ("CH" :> [name |-> "Chiltern Railways", color |-> "#00bfff"]) @@
  ("XC" :> [name |-> "CrossCountry", color |-> "#660f21"]) @@
  ("GR" :> [name |-> "LNER", color |-> "#ce0e2d"]) @@
  ("HX" :> [name |-> "Heathrow Express", color |-> "#532e63"]) @@
  ("GX" :> [name |-> "Gatwick Express", color |-> "#e11837"]) @@
  ("CS" :> [name |-> "Caledonian Sleeper", color |-> "#1e3264"]) @@
  ("GC" :> [name |-> "Grand Central", color |-> "#2d2926"]) @@
  ("IL" :> [name |-> "Island Line", color |-> "#1fa14a"]) @@
  ("TW" :> [name |-> "Tyne & Wear Metro", color |-> "#ffd500"]) @@
  ("LT" :> [name |-> "London Tramlink", color |-> "#6cc24a"])

(***************************************************************************)
(* process_schedule: ingest of one feed record (grouping by uid).          *)
(* schedules_by_uid is a dict in insertion order: a sequence of            *)
(* [uid, versions] entries.                                                *)
(***************************************************************************)
\* Variant of AppendVersion that keeps every record as a group of its own.
AppendVersionUngrouped(sbu, v) ==
  Append(sbu, [uid |-> v.uid, versions |-> <<v>>])

AppendVersion(sbu, v) ==
  IF \E i \in 1..Len(sbu) : sbu[i].uid = v.uid
  THEN [i \in 1..Len(sbu) |->
          IF sbu[i].uid = v.uid
          THEN [sbu[i] EXCEPT !.versions = Append(@, v)]
          ELSE sbu[i]]
  ELSE Append(sbu, [uid |-> v.uid, versions |-> <<v>>])

Ingest(sbu, sched) ==
  IF sched.uid = "" \/ sched.locations = << >> THEN sbu
  ELSE IF ~is_tuesday(sched.days_run) THEN sbu
  ELSE AppendVersion(sbu, [uid |-> sched.uid, stp |-> sched.stp,
                           toc |-> sched.toc, locations |-> sched.locations])

(***************************************************************************)
(* process_schedule: override resolution and path building of one uid.     *)
(***************************************************************************)
\* list.sort(key=priority, reverse=True) is stable: equal keys keep their order.
InsertVersion(sorted, v) ==
  LET n == Cardinality({i \in 1..Len(sorted) :
                          STP_PRIORITY(sorted[i].stp) >= STP_PRIORITY(v.stp)})
  IN SubSeq(sorted, 1, n) \o <<v>> \o SubSeq(sorted, n + 1, Len(sorted))

\* Variant of the sort without reverse=True (ascending priority, stable).
InsertVersionAsc(sorted, v) ==
  LET n == Cardinality({i \in 1..Len(sorted) :
                          STP_PRIORITY(sorted[i].stp) <= STP_PRIORITY(v.stp)})
  IN SubSeq(sorted, 1, n) \o <<v>> \o SubSeq(sorted, n + 1, Len(sorted))

RECURSIVE SortVersionsAsc(_)
SortVersionsAsc(versions) ==
  IF versions = << >> THEN << >>
  ELSE InsertVersionAsc(SortVersionsAsc(SubSeq(versions, 1, Len(versions) - 1)),
                        versions[Len(versions)])

RECURSIVE SortVersions(_)
SortVersions(versions) ==
  IF versions = << >> THEN << >>
  ELSE InsertVersion(SortVersions(SubSeq(versions, 1, Len(versions) - 1)),
                     versions[Len(versions)])

\* Variant of Best that takes the other end of the sorted list.
BestLast(versions) == versions[Len(versions)]

Best(versions) == versions[1]

Cancelled(best) == best.stp = "C"

\* tiploc_to_crs.get(tiploc): None when absent
CrsOf(tiploc) ==
  IF tiploc \in DOMAIN tiploc_to_crs THEN tiploc_to_crs[tiploc] ELSE "None"

Unresolved(crs) == crs = "None" \/ crs = "" \/ crs \notin DOMAIN stations

\* parse_time(departure) or parse_time(arrival) or parse_time(pass)
StopTime(l) ==
  PyOr(PyOr(parse_time(l.departure), parse_time(l.arrival)), parse_time(l.pass))

Waypoint(stn, t) == <<PyRound(stn.lng, 10), PyRound(stn.lat, 10), t>>

\* loc.get('tiploc_code', '').strip(): a missing key reads as '', a null code
\* is None, which has no strip, and the call raises AttributeError.
NullCode(l) == l.tiploc_code = NoneStr

\* One iteration of the loop over best['locations'], given the outcome of the
\* iterations before it, the stop, its CRS and its time.
AddStop(rest, l, crs, t) ==
  IF rest.raised \/ NullCode(l) THEN [raised |-> TRUE, path |-> << >>]
  ELSE IF Unresolved(crs) THEN rest
  ELSE IF t = None THEN rest
  ELSE [rest EXCEPT !.path = Append(@, Waypoint(stations[crs], t[1]))]

\* The loop over best['locations']: raised tells whether it ended in the
\* AttributeError, path is the list built when it did not.
RECURSIVE ExtractPath(_)
ExtractPath(locations) ==
  IF locations = << >> THEN [raised |-> FALSE, path |-> << >>]
  ELSE AddStop(ExtractPath(SubSeq(locations, 1, Len(locations) - 1)),
               locations[Len(locations)],
               CrsOf(Strip(locations[Len(locations)].tiploc_code)),
               StopTime(locations[Len(locations)]))

\* Variant of TooShort that lets a one-point path through.
TooShortBelowOne(path) == Len(path) < 1

TooShort(path) == Len(path) < 2

\* list.sort(key=lambda p: p[2]) is stable
InsertPoint(sorted, p) ==
  LET n == Cardinality({i \in 1..Len(sorted) : sorted[i][3] <= p[3]})
  IN SubSeq(sorted, 1, n) \o <<p>> \o SubSeq(sorted, n + 1, Len(sorted))

\* Variant of SortPath that leaves the path in declared stop order.
SortPathDeclared(path) == path

RECURSIVE SortPath(_)
SortPath(path) ==
  IF path = << >> THEN << >>
  ELSE InsertPoint(SortPath(SubSeq(path, 1, Len(path) - 1)), path[Len(path)])

\* stations.get(tiploc_to_crs.get(tiploc, ''), {}).get('name', '?')
StationName(tiploc) ==
  LET crs == IF tiploc \in DOMAIN tiploc_to_crs THEN tiploc_to_crs[tiploc] ELSE ""
  IN IF crs \in DOMAIN stations THEN stations[crs].name ELSE "?"

\* Variant of AppendTrain that names origin and destination after the
\* earliest and the latest stop that made it into the path.
AppendTrainNamesFromPath(uid, best, extracted) ==
  LET path == extracted.path
      kept == SelectSeq(best.locations,
                LAMBDA l : ~Unresolved(CrsOf(Strip(l.tiploc_code)))
                           /\ StopTime(l) # None)
      first == CHOOSE i \in 1..Len(kept) :
                 \A j \in 1..Len(kept) :
                   \/ StopTime(kept[i])[1] < StopTime(kept[j])[1]
                   \/ StopTime(kept[i])[1] = StopTime(kept[j])[1] /\ i <= j
      last == CHOOSE i \in 1..Len(kept) :
                \A j \in 1..Len(kept) :
                  \/ StopTime(kept[i])[1] > StopTime(kept[j])[1]
                  \/ StopTime(kept[i])[1] = StopTime(kept[j])[1] /\ i >= j
  IN IF Cancelled(best) THEN [raised |-> FALSE, trains |-> << >>]
     ELSE IF extracted.raised THEN [raised |-> TRUE, trains |-> << >>]
     ELSE IF TooShort(path) THEN [raised |-> FALSE, trains |-> << >>]
     ELSE [raised |-> FALSE,
           trains |-> << [id |-> uid,
                          op |-> best.toc,
                          from |-> StationName(Strip(kept[first].tiploc_code)),
                          to |-> StationName(Strip(kept[last].tiploc_code)),
                          path |-> SortPath(path)] >>]

\* What the loop body does for one uid with the path extracted from its best
\* version: nothing for a Cancellation (the stop loop is not run), the
\* AttributeError of the stop loop, nothing for a path of fewer than two
\* waypoints, else one appended train.
AppendTrain(uid, best, extracted) ==
  LET path == extracted.path
  IN IF Cancelled(best) THEN [raised |-> FALSE, trains |-> << >>]
     ELSE IF extracted.raised THEN [raised |-> TRUE, trains |-> << >>]
     ELSE IF TooShort(path) THEN [raised |-> FALSE, trains |-> << >>]
     ELSE [raised |-> FALSE,
           trains |-> << [id |-> uid,
                          op |-> best.toc,
                          from |-> StationName(
                                     Strip(best.locations[1].tiploc_code)),
                          to |-> StationName(
                                   Strip(best.locations[Len(best.locations)]
                                           .tiploc_code)),
                          path |-> SortPath(path)] >>]

\* The body of the loop over schedules_by_uid for one uid, given its sorted
\* versions.  raised tells whether the body ended in the AttributeError of
\* the stop loop; otherwise trains is << >> when the uid is skipped, else the
\* one appended train.
BuildTrain(uid, sorted) ==
  AppendTrain(uid, Best(sorted), ExtractPath(Best(sorted).locations))

\* process_schedule as a function of the whole feed: raised tells whether the
\* call ended in the AttributeError (it then returns nothing), trains is the
\* list it returned otherwise.
RECURSIVE IngestAll(_)
IngestAll(f) ==
  IF f = << >> THEN << >>
  ELSE Ingest(IngestAll(SubSeq(f, 1, Len(f) - 1)), f[Len(f)])

\* The trains after one more uid, or the AttributeError that ended the loop.
ThenTrain(before, this) ==
  IF before.raised \/ this.raised THEN [raised |-> TRUE, trains |-> << >>]
  ELSE [raised |-> FALSE, trains |-> before.trains \o this.trains]

RECURSIVE ResolveAll(_)
ResolveAll(sbu) ==
  IF sbu = << >> THEN [raised |-> FALSE, trains |-> << >>]
  ELSE ThenTrain(ResolveAll(SubSeq(sbu, 1, Len(sbu) - 1)),
                 BuildTrain(sbu[Len(sbu)].uid,
                            SortVersions(sbu[Len(sbu)].versions)))

process_schedule(f) == ResolveAll(IngestAll(f))

(***************************************************************************)
(* main: operator filter, reduced precision, operator section, output.     *)
(***************************************************************************)
\* Variant of Known that only rejects an empty operator code.
KnownNonEmpty(op) == op # ""

Known(op) == op \in DOMAIN KNOWN_OPERATORS

FilterKnown(ts) == SelectSeq(ts, LAMBDA t : Known(t.op))

ReducePrecision(t) ==
  [t EXCEPT !.path = [i \in 1..Len(t.path) |->
      <<PyRound(t.path[i][1], 100), PyRound(t.path[i][2], 100), t.path[i][3]>>]]

\* operators is a dict keyed by op
CollectOperators(ts) ==
  [op \in {ts[i].op : i \in 1..Len(ts)} |->
      IF op \in DOMAIN KNOWN_OPERATORS THEN KNOWN_OPERATORS[op]
      ELSE [name |-> op, color |-> "#ffb830"]]

\* Variant of Output that collects the operators before the allow-list filter.
OutputCollectFirst(ts, today) ==
  LET kept == FilterKnown(ts)
      out == [i \in 1..Len(kept) |-> ReducePrecision(kept[i])]
  IN [meta |-> [date |-> today, total_trains |-> Len(out),
                source |-> "Network Rail SCHEDULE"],
      operators |-> CollectOperators(ts),
      trains |-> out]

\* Variant of Output that also stamps the source line with the date of the run.
OutputDatedSource(ts, today) ==
  LET kept == FilterKnown(ts)
      out == [i \in 1..Len(kept) |-> ReducePrecision(kept[i])]
  IN [meta |-> [date |-> today, total_trains |-> Len(out), source |-> today],
      operators |-> CollectOperators(out),
      trains |-> out]

Output(ts, today) ==
  LET kept == FilterKnown(ts)
      out == [i \in 1..Len(kept) |-> ReducePrecision(kept[i])]
  IN [meta |-> [date |-> today, total_trains |-> Len(out),
                source |-> "Network Rail SCHEDULE"],
      operators |-> CollectOperators(out),
      trains |-> out]

(***************************************************************************)
(* Inputs of the model: time tokens, running patterns, stop lists and the  *)
(* feed records (the JsonScheduleV1 objects) built from them.              *)
(***************************************************************************)
T0000 == Codes(<<"0", "0", "0", "0">>)
T0030 == Codes(<<"0", "0", "3", "0">>)
T0700 == Codes(<<"0", "7", "0", "0">>)
T0800 == Codes(<<"0", "8", "0", "0">>)
T0805 == Codes(<<"0", "8", "0", "5">>)
T0810 == Codes(<<"0", "8", "1", "0">>)
T0830 == Codes(<<"0", "8", "3", "0">>)
T0835H == Codes(<<"0", "8", "3", "5", "H">>)
TBad == Codes(<<"0", "8", ":", "3", "0">>)

Stop(tiploc, dep, arr, pass) ==
  [tiploc_code |-> tiploc, departure |-> dep, arrival |-> arr, pass |-> pass]

\* two stops in time order
StopsA == <<Stop(L1, T0800, NoneStr, NoneStr), Stop(L2, T0830, T0830, NoneStr)>>
\* the same journey retimed
StopsB == <<Stop(L1, T0805, NoneStr, NoneStr), Stop(L2pad, NoneStr, T0835H, NoneStr)>>
\* declared order is not time order
StopsRev == <<Stop(L2, T0830, NoneStr, NoneStr), Stop(L3, NoneStr, NoneStr, T0810),
              Stop(L1, T0800, NoneStr, NoneStr)>>
\* one stop without any time
StopsOne == <<Stop(L3, NoneStr, NoneStr, NoneStr)>>
\* unknown TIPLOC, CRS without station, unparsable and missing times
StopsSoft == <<Stop(L9, T0700, NoneStr, NoneStr), Stop(L1, T0800, NoneStr, NoneStr),
               Stop(L4, T0810, NoneStr, NoneStr), Stop(L2, TBad, << >>, T0830),
               Stop(L3, NoneStr, TBad, NoneStr)>>
\* two stops, only one of them usable
StopsLone == <<Stop(L1, T0800, NoneStr, NoneStr), Stop(L9, T0830, NoneStr, NoneStr)>>
\* a departure at midnight
StopsMidnight == <<Stop(L1, T0000, NoneStr, NoneStr), Stop(L2, T0030, NoneStr, NoneStr)>>
\* a stop whose location code is null, between two usable stops
StopsNull == <<Stop(L1, T0800, NoneStr, NoneStr), Stop(NoneStr, T0810, NoneStr, NoneStr),
               Stop(L2, T0830, NoneStr, NoneStr)>>
\* a record without schedule_location
StopsNone == << >>

Runs == Codes(<<"1", "1", "1", "1", "1", "0", "0">>)
NotTuesday == Codes(<<"1", "0", "1", "1", "1", "0", "0">>)
ShortDays == Codes(<<"1", "0", "1", "1", "1", "0">>)

Sched(uid, stp, days_run, toc, locations) ==
  [uid |-> uid, stp |-> stp, days_run |-> days_run, toc |-> toc,
   locations |-> locations]

Records ==
  { Sched("X1", "P", Runs, "NT", StopsA),
    Sched("X1", "P", << >>, "ZZ", StopsRev),
    Sched("X1", "P", Runs, "SE", StopsOne),
    Sched("X1", "O", Runs, "NT", StopsB),
    Sched("X1", "O", ShortDays, "SE", StopsRev),
    Sched("X1", "N", NotTuesday, "NT", StopsB),
    Sched("X1", "N", Runs, "", StopsSoft),
    Sched("X1", "C", Runs, "NT", StopsA),
    Sched("X1", "C", Runs, "NT", StopsNone),
    Sched("X1", "C", NotTuesday, "NT", StopsA),
    Sched("X2", "P", Runs, "SE", StopsRev),
    Sched("X2", "O", Runs, "NT", StopsLone),
    Sched("X2", "N", Runs, "NT", StopsMidnight),
    Sched("X2", "N", Runs, "SE", StopsNull),
    Sched("X2", "C", Runs, "SE", StopsNone) }

Dates == {"2026-10-29", "2026-10-30"}

(***************************************************************************)
(* The pipeline as a state machine.                                        *)
(*   pc = "read"    : the loop over the feed lines of process_schedule     *)
(*   pc = "resolve" : the loop over schedules_by_uid of process_schedule   *)
(*   pc = "main"    : process_schedule has returned trains to main         *)
(*   pc = "done"    : main has assembled data                              *)
(*   pc = "raised"  : the run has ended in an AttributeError, without data  *)
(* feed records the lines read so far.                                     *)
(***************************************************************************)
NoData == << >>

IdleCodec ==
  /\ time_str = NoneStr
  /\ loc = Stop(L1, NoneStr, NoneStr, NoneStr)
  /\ time = <<"unset">>

IdleDay ==
  /\ days = NoneStr
  /\ runs = "unset"

Init ==
  /\ pc = "read"
  /\ feed = << >>
  /\ schedules_by_uid = << >>
  /\ group_idx = 1
  /\ trains = << >>
  /\ data = NoData
  /\ prev = NoData
  /\ IdleCodec
  /\ IdleDay

\* One iteration of `for line in f`.
ReadRecord ==
  /\ pc = "read"
  /\ Len(feed) < MaxFeed
  /\ \E sched \in Records :
       /\ feed' = Append(feed, sched)
       /\ schedules_by_uid' = Ingest(schedules_by_uid, sched)
  /\ UNCHANGED <<pc, group_idx, trains, data, time_str, loc, time, prev, days, runs>>

\* End of the feed: f.close(), trains = [].
EndOfFeed ==
  /\ pc = "read"
  /\ pc' = "resolve"
  /\ group_idx' = 1
  /\ trains' = << >>
  /\ UNCHANGED <<feed, schedules_by_uid, data, time_str, loc, time, prev, days, runs>>

\* One iteration of `for uid, versions in schedules_by_uid.items()`.
\* versions.sort sorts the list held by the dict in place.  An AttributeError
\* raised in the stop loop is caught nowhere and ends the run.
ResolveUid ==
  /\ pc = "resolve"
  /\ group_idx <= Len(schedules_by_uid)
  /\ LET g == schedules_by_uid[group_idx]
         sorted == SortVersions(g.versions)
     IN /\ schedules_by_uid' =
             [schedules_by_uid EXCEPT ![group_idx].versions = sorted]
        /\ \E built \in {BuildTrain(g.uid, sorted)} :
             IF built.raised
             THEN /\ pc' = "raised"
                  /\ UNCHANGED <<trains, group_idx>>
             ELSE /\ trains' = trains \o built.trains
                  /\ group_idx' = group_idx + 1
                  /\ UNCHANGED pc
  /\ UNCHANGED <<feed, data, time_str, loc, time, prev, days, runs>>

\* return trains
ReturnTrains ==
  /\ pc = "resolve"
  /\ group_idx > Len(schedules_by_uid)
  /\ pc' = "main"
  /\ UNCHANGED <<feed, schedules_by_uid, group_idx, trains, data, time_str, loc, time, prev, days, runs>>

\* The rest of main; datetime.now() is an input of the run.  main rebinds
\* trains to the allow-listed journeys and rounds their paths in place, so
\* trains ends as the list held by data.
Main ==
  /\ pc = "main"
  /\ \E today \in Dates :
       \E out \in {Output(trains, today)} :
         /\ data' = out
         /\ trains' = out.trains
  /\ pc' = "done"
  /\ UNCHANGED <<feed, schedules_by_uid, group_idx, time_str, loc, time, prev, days, runs>>

Next == ReadRecord \/ EndOfFeed \/ ResolveUid \/ ReturnTrains \/ Main

Spec == Init /\ [][Next]_vars

(***************************************************************************)
(* The pipeline run a second time on the same feed and tables: main as one *)
(* step, started at a moment of its own.  prev keeps the first output.     *)
(***************************************************************************)
RunAgain ==
  /\ pc = "done"
  /\ prev' = data
  /\ \E again \in {process_schedule(feed)} :
       IF again.raised
       THEN /\ pc' = "raised"
            /\ UNCHANGED <<data, trains>>
       ELSE /\ \E today \in Dates :
                 \E out \in {Output(again.trains, today)} :
                   /\ data' = out
                   /\ trains' = out.trains
            /\ pc' = "rerun"
  /\ UNCHANGED <<feed, schedules_by_uid, group_idx, time_str, loc, time,
                 days, runs>>

NextTwice == Next \/ RunAgain

SpecTwice == Init /\ [][NextTwice]_vars

(***************************************************************************)
(* The Time Codec on its own: parse_time applied to one token, and the     *)
(* departure/arrival/pass resolution applied to one stop.                  *)
(***************************************************************************)
Alphabet == {Ord[c] : c \in {"0", "2", "5", " ", "\t", "H", "X", "-"}}

Tokens ==
  {NoneStr} \cup UNION {[1..n -> Alphabet] : n \in 0..MaxTokLen}

StopTokens == {NoneStr, << >>, T0000, T0830, T0835H, TBad}

StopInputs ==
  {Stop(L1, d, a, p) : d \in StopTokens, a \in StopTokens, p \in StopTokens}

IdlePipeline ==
  /\ feed = << >>
  /\ schedules_by_uid = << >>
  /\ group_idx = 1
  /\ trains = << >>
  /\ data = NoData
  /\ prev = NoData

InitTime ==
  /\ IdlePipeline
  /\ IdleDay
  /\ time = <<"unset">>
  /\ \/ /\ pc = "token"
        /\ time_str \in Tokens
        /\ loc = Stop(L1, NoneStr, NoneStr, NoneStr)
     \/ /\ pc = "stop"
        /\ time_str = NoneStr
        /\ loc \in StopInputs

\* time = parse_time(time_str)
ParseTime ==
  /\ pc = "token"
  /\ time' = parse_time(time_str)
  /\ pc' = "parsed"
  /\ UNCHANGED <<feed, schedules_by_uid, group_idx, trains, data, time_str, loc,
               prev, days, runs>>

\* time = parse_time(departure) or parse_time(arrival) or parse_time(pass)
ResolveStopTime ==
  /\ pc = "stop"
  /\ time' = StopTime(loc)
  /\ pc' = "timed"
  /\ UNCHANGED <<feed, schedules_by_uid, group_idx, trains, data, time_str, loc,
               prev, days, runs>>

NextTime == ParseTime \/ ResolveStopTime

SpecTime == InitTime /\ [][NextTime]_vars

(***************************************************************************)
(* The Day-Pattern Selector on its own, next to the pipeline that uses it: *)
(* is_tuesday applied to one running-pattern vector.                       *)
(***************************************************************************)
DayAlphabet == {Ord[c] : c \in {"0", "1", "Y"}}

DayVectors ==
  {NoneStr} \cup UNION {[1..n -> DayAlphabet] : n \in 0..MaxDayLen}

InitDay ==
  /\ IdlePipeline
  /\ IdleCodec
  /\ pc = "days"
  /\ days \in DayVectors
  /\ runs = "unset"

\* runs = is_tuesday(days)
CheckDay ==
  /\ pc = "days"
  /\ runs' = is_tuesday(days)
  /\ pc' = "checked"
  /\ UNCHANGED <<feed, schedules_by_uid, group_idx, trains, data, time_str, loc,
                 time, prev, days>>

NextDay == Next \/ CheckDay

SpecDay == (Init \/ InitDay) /\ [][NextDay]_vars

(***************************************************************************)
(* Properties of the Time Codec.                                           *)
(***************************************************************************)
\* The first decoded value in the order departure, arrival, pass; None when
\* none of the three tokens decodes.
FirstDecoded(l) ==
  IF parse_time(l.departure) # None THEN parse_time(l.departure)
  ELSE IF parse_time(l.arrival) # None THEN parse_time(l.arrival)
  ELSE parse_time(l.pass)

\* C4: the time of a stop is the decoded departure whenever the departure
\* decodes to a value (00:00 included), else the decoded arrival, else the
\* decoded pass; the stop has no time only when none of the three decodes.
C4_FirstDecodedTimeWins ==
  pc = "timed" => time = FirstDecoded(loc)

\* A token is well-formed when, trimmed, it has at least four characters and
\* digits in the hour and minute positions.
Blank(ts) == ts = NoneStr \/ Strip(ts) = << >>

Malformed(ts) ==
  /\ ~Blank(ts)
  /\ \/ Len(Strip(ts)) < 4
     \/ \E i \in 1..4 : Strip(ts)[i] \notin Digit

\* C7: parse_time returns absent for every malformed token (a non-digit in
\* the hour or minute positions, or fewer than 4 characters after trimming)
\* and for every empty or whitespace-only token.
C7_MalformedIsAbsent ==
  pc = "parsed" /\ (Malformed(time_str) \/ Blank(time_str)) => time = None

HourMinuteSeconds(t) ==
  (DigitVal(t[1]) * 10 + DigitVal(t[2])) * 3600
    + (DigitVal(t[3]) * 10 + DigitVal(t[4])) * 60

\* C8: for a token with a two-digit hour and a two-digit minute parse_time
\* returns hour*3600 + minute*60, plus exactly 30 when the character after
\* the minute is the half-minute marker H, and nothing more otherwise.
C8_HourMinuteHalf ==
  pc = "parsed" /\ ~Blank(time_str) /\ ~Malformed(time_str) =>
    LET t == Strip(time_str)
    IN time = Some(HourMinuteSeconds(t)
                     + (IF Len(t) > 4 /\ t[5] = Ord["H"] THEN 30 ELSE 0))

C8_Witness ==
  /\ pc = "parsed"
  /\ time_str = Codes(<<"2", "0", "0", "5", "H">>)
  /\ time = Some(20 * 3600 + 5 * 60 + 30)

(***************************************************************************)
(* Properties of the pipeline.                                             *)
(***************************************************************************)
Returned == pc \in {"main", "done"}

\* The journeys process_schedule has built: the list trains up to the moment
\* main rebinds it to the output's journeys, and the list main had received
\* after that.
Built ==
  IF pc \in {"done", "rerun"} THEN process_schedule(feed).trains ELSE trains

FeedUids == {feed[i].uid : i \in 1..Len(feed)}

\* The records of uid u that run on the representative weekday.
RunningIdx(f, u) ==
  {i \in 1..Len(f) : f[i].uid = u /\ is_tuesday(f[i].days_run)}

Priority(sched) == STP_PRIORITY(sched.stp)

JourneysOf(ts, u) == {ts[i] : i \in {j \in 1..Len(ts) : ts[j].id = u}}

\* Among the running records of u, a Cancellation holds the highest priority.
CancellationOnTop(f, u) ==
  \E i \in RunningIdx(f, u) :
    /\ f[i].stp = "C"
    /\ \A j \in RunningIdx(f, u) : Priority(f[j]) <= Priority(f[i])

\* C1: when a Cancellation record holds the highest STP priority among the
\* records of a uid that run on the representative weekday, process_schedule
\* returns no journey for that uid, whatever the stop lists of the records.
C1_CancellationSuppressesUid ==
  Returned =>
    \A u \in FeedUids : CancellationOnTop(feed, u) => JourneysOf(Built, u) = {}

\* The variants of u: its running records that have a uid and a stop list,
\* i.e. the records that enter the uid's group.
Candidates(f, u) ==
  {i \in RunningIdx(f, u) : f[i].uid # "" /\ f[i].locations # << >>}

\* Greatest priority, and among those of greatest priority the earliest.
WinnerIdx(f, u) ==
  CHOOSE i \in Candidates(f, u) :
    \A j \in Candidates(f, u) :
      \/ Priority(f[j]) < Priority(f[i])
      \/ Priority(f[j]) = Priority(f[i]) /\ i <= j

Variant(sched) ==
  [uid |-> sched.uid, stp |-> sched.stp, toc |-> sched.toc,
   locations |-> sched.locations]

ResolvedGroups ==
  {g \in 1..Len(schedules_by_uid) : pc # "read" /\ g < group_idx}

\* C2: the variant chosen for a uid is the one of greatest STP priority among
\* the uid's variants that run on the representative weekday, the earliest
\* in the feed among equals; a journey emitted for the uid carries that
\* variant's operator and times.
C2_HighestPriorityEarliestWins ==
  \A g \in ResolvedGroups :
    LET u == schedules_by_uid[g].uid
        w == feed[WinnerIdx(feed, u)]
    IN /\ schedules_by_uid[g].versions[1] = Variant(w)
       /\ \A t \in JourneysOf(Built, u) :
            /\ t.op = w.toc
            /\ t.path = SortPath(ExtractPath(w.locations).path)

\* A Permanent variant followed by an Overlay of the same uid: the journey
\* leaves L1 at 08:05, the Overlay's time.
C2_Witness ==
  /\ pc = "done"
  /\ Len(feed) = 2
  /\ feed[1] = Sched("X1", "P", Runs, "NT", StopsA)
  /\ feed[2] = Sched("X1", "O", Runs, "NT", StopsB)
  /\ \E t \in JourneysOf(Built, "X1") : t.path[1][3] = 8 * 3600 + 5 * 60

Perms ==
  [n \in 0..MaxFeed |->
     {p \in [1..n -> 1..n] : \A i, j \in 1..n : i # j => p[i] # p[j]}]

Reorder(f, p) == [i \in 1..Len(f) |-> f[p[i]]]

\* The feeds obtained from f by changing the order of the non-winning records
\* of uid u among the places they hold; every other record, the winning one
\* included, stays where it is.
NonWinnerReorderings(f, u) ==
  LET w == WinnerIdx(f, u)
  IN {Reorder(f, p) : p \in
        {q \in Perms[Len(f)] :
           \A i \in 1..Len(f) :
             q[i] # i => /\ f[i].uid = u /\ i # w
                         /\ f[q[i]].uid = u /\ q[i] # w}}

\* The uid has a winner and it is not a Cancellation: no running Cancellation
\* record of the uid exists, with or without a stop list.
LiveWinner(f, u) == Candidates(f, u) # {} /\ ~CancellationOnTop(f, u)

\* No variant of the winner's priority stands ahead of the winner in f2.
WinnerStillFirst(f2, u, w) ==
  \A j \in 1..(w - 1) :
    ~(j \in Candidates(f2, u) /\ Priority(f2[j]) = Priority(f2[w]))

\* C3 as stated: for a uid whose winner is not a Cancellation, any change of
\* the feed order of the non-winning variants leaves the emitted journey as
\* it is.
C3_AnyReorderingKeepsJourney ==
  pc = "main" =>
    \A u \in FeedUids :
      LiveWinner(feed, u) =>
        \A f2 \in NonWinnerReorderings(feed, u) :
          JourneysOf(process_schedule(f2).trains, u) = JourneysOf(trains, u)

\* C3 amended: the same, for the changes of order that move no variant of
\* the winner's STP priority ahead of the winning record.
C3_ReorderingBehindWinnerKeepsJourney ==
  pc = "main" =>
    \A u \in FeedUids :
      LiveWinner(feed, u) =>
        \A f2 \in NonWinnerReorderings(feed, u) :
          WinnerStillFirst(f2, u, WinnerIdx(feed, u)) =>
            JourneysOf(process_schedule(f2).trains, u) = JourneysOf(trains, u)

\* A journey is emitted for a uid whose non-winning variants can be put in
\* another order without moving an equal ahead of the winner.
C3_Witness ==
  /\ pc = "main"
  /\ \E u \in FeedUids :
       /\ LiveWinner(feed, u)
       /\ JourneysOf(trains, u) # {}
       /\ \E f2 \in NonWinnerReorderings(feed, u) :
            f2 # feed /\ WinnerStillFirst(f2, u, WinnerIdx(feed, u))

TimeSorted(path) ==
  \A i \in 1..(Len(path) - 1) : path[i][3] <= path[i + 1][3]

\* C5: the path of every journey built by process_schedule is sorted
\* non-decreasing by timestamp, and so is every path of the output after the
\* reduced-precision pass of main.
C5_PathsTimeSorted ==
  /\ \A i \in 1..Len(trains) : TimeSorted(trains[i].path)
  /\ pc = "done" => \A j \in 1..Len(data.trains) : TimeSorted(data.trains[j].path)

\* A journey of the output whose stops were declared out of time order: it
\* starts from Bravo (first declared stop, 08:30) and its path starts at 08:00.
C5_Witness ==
  /\ pc = "done"
  /\ \E j \in 1..Len(data.trains) :
       /\ data.trains[j].from = "Bravo"
       /\ Len(data.trains[j].path) = 3
       /\ data.trains[j].path[1][3] = 8 * 3600
       /\ \E i \in 1..Len(feed) :
            feed[i].uid = data.trains[j].id /\ feed[i].locations = StopsRev

\* The stops of a stop list with a station and a time.
UsableStops(locations) ==
  {i \in 1..Len(locations) :
     /\ Strip(locations[i].tiploc_code) \in DOMAIN tiploc_to_crs
     /\ tiploc_to_crs[Strip(locations[i].tiploc_code)] \in DOMAIN stations
     /\ StopTime(locations[i]) # None}

\* C6: every journey built, and every journey of the output, has a path of
\* at least 2 waypoints; a uid whose winning variant has fewer than 2 usable
\* stops contributes no journey.
C6_AtLeastTwoWaypoints ==
  /\ \A i \in 1..Len(trains) : Len(trains[i].path) >= 2
  /\ pc = "done" => \A j \in 1..Len(data.trains) : Len(data.trains[j].path) >= 2
  /\ \A g \in ResolvedGroups :
       Cardinality(UsableStops(schedules_by_uid[g].versions[1].locations)) < 2
         => /\ JourneysOf(trains, schedules_by_uid[g].uid) = {}
            /\ pc = "done" => JourneysOf(data.trains, schedules_by_uid[g].uid) = {}

\* A run in which one uid's winner has a single usable stop and is left out
\* while another uid's journey is in the output.
C6_Witness ==
  /\ pc = "done"
  /\ data.trains # << >>
  /\ \E g \in ResolvedGroups :
       /\ Cardinality(UsableStops(schedules_by_uid[g].versions[1].locations)) = 1
       /\ schedules_by_uid[g].versions[1].stp # "C"
       /\ JourneysOf(data.trains, schedules_by_uid[g].uid) = {}

AllowList == DOMAIN KNOWN_OPERATORS

\* C9: the output holds exactly the built journeys whose operator code is on
\* the allow-list, and meta.total_trains is the number of trains in it.
C9_OutputIsAllowListed ==
  pc = "done" =>
    /\ \A i \in 1..Len(Built) :
         Built[i].op \in AllowList <=> JourneysOf(data.trains, Built[i].id) # {}
    /\ \A j \in 1..Len(data.trains) :
         /\ data.trains[j].op \in AllowList
         /\ \E i \in 1..Len(Built) :
              /\ Built[i].id = data.trains[j].id
              /\ Built[i].op = data.trains[j].op
              /\ Built[i].from = data.trains[j].from
              /\ Built[i].to = data.trains[j].to
    /\ Len(data.trains) =
         Cardinality({i \in 1..Len(Built) : Built[i].op \in AllowList})
    /\ data.meta.total_trains = Len(data.trains)

\* Two journeys were built, one with operator ZZ and one with an absent
\* operator code or an allow-listed one; only allow-listed ones are output.
C9_Witness ==
  /\ pc = "done"
  /\ \E i \in 1..Len(Built) : Built[i].op = "ZZ"
  /\ \E i \in 1..Len(Built) : Built[i].op \in AllowList
  /\ data.meta.total_trains = 1

OutputOps == {data.trains[j].op : j \in 1..Len(data.trains)}

\* C10: the keys of the output's operators map are exactly the operator codes
\* of the journeys in the output's trains, each with the allow-list's entry.
C10_OperatorsAreThoseInOutput ==
  pc = "done" =>
    /\ DOMAIN data.operators = OutputOps
    /\ "ZZ" \notin DOMAIN data.operators
    /\ \A op \in DOMAIN data.operators : data.operators[op] = KNOWN_OPERATORS[op]

\* A ZZ journey was built and dropped, and the operators map has just the
\* operator of the surviving journey.
C10_Witness ==
  /\ pc = "done"
  /\ \E i \in 1..Len(Built) : Built[i].op = "ZZ"
  /\ DOMAIN data.operators = {"SE"}
  /\ data.operators["SE"] = [name |-> "Southeastern", color |-> "#009ddc"]

(***************************************************************************)
(* Properties of repeated runs.                                            *)
(***************************************************************************)
\* C11 as stated: a second run of main on the same feed, tables and
\* allow-list gives the same output as the first, meta included, whenever
\* the two runs are started.
C11_SecondRunSameOutput ==
  pc = "rerun" => data = prev

\* C11 amended: the two outputs agree in every field other than meta.date,
\* which is the date on which the run was started; runs started on the same
\* date give the same output.
C11_SecondRunSameButDate ==
  pc = "rerun" =>
    /\ data.trains = prev.trains
    /\ data.operators = prev.operators
    /\ data.meta.total_trains = prev.meta.total_trains
    /\ data.meta.source = prev.meta.source
    /\ data.meta.date = prev.meta.date => data = prev

\* Two runs on a feed that yields a journey, started on different dates.
C11_Witness ==
  /\ pc = "rerun"
  /\ data.trains # << >>
  /\ data.meta.date # prev.meta.date
  /\ data.trains = prev.trains

(***************************************************************************)
(* Properties of the journeys of one uid.                                  *)
(***************************************************************************)
DistinctIds(ts) ==
  \A i, j \in 1..Len(ts) : i # j => ts[i].id # ts[j].id

\* C12: the ids of the emitted trains are pairwise distinct (at most one
\* journey per uid), and op, from, to and path of each journey all come from
\* the one winning variant of its uid.
C12_OneJourneyPerUid ==
  /\ DistinctIds(Built)
  /\ pc = "done" => DistinctIds(data.trains)
  /\ \A i \in 1..Len(Built) :
       LET w == feed[WinnerIdx(feed, Built[i].id)]
       IN /\ Built[i].op = w.toc
          /\ Built[i].from = StationName(Strip(w.locations[1].tiploc_code))
          /\ Built[i].to =
               StationName(Strip(w.locations[Len(w.locations)].tiploc_code))
          /\ Built[i].path = SortPath(ExtractPath(w.locations).path)

\* Two uids each emit a journey and one of them had two variants in the feed.
C12_Witness ==
  /\ pc = "done"
  /\ Len(Built) = 2
  /\ \E i, j \in 1..Len(feed) :
       /\ i < j
       /\ feed[i].uid = feed[j].uid
       /\ {i, j} \subseteq Candidates(feed, feed[i].uid)
       /\ JourneysOf(Built, feed[i].uid) # {}

(***************************************************************************)
(* Properties of the Day-Pattern Selector.                                 *)
(***************************************************************************)
\* Missing, empty or shorter than 7 characters: runs; else the second flag.
RunsOnTuesday(d) == d = NoneStr \/ Len(d) < 7 \/ d[2] = Ord["1"]

RunningRecords(f) == SelectSeq(f, LAMBDA r : RunsOnTuesday(r.days_run))

\* C13: is_tuesday is true exactly when the second character is '1' for a
\* vector of at least 7 characters and true for a missing, empty or shorter
\* vector; a variant for which it is false never enters its uid's group, and
\* the journeys returned are those of the feed without such records (a
\* non-running Cancellation suppresses nothing, a non-running variant of
\* higher priority does not win).
C13_DayPatternFiltersVariants ==
  /\ pc = "checked" => (runs <=> RunsOnTuesday(days))
  /\ \A g \in 1..Len(schedules_by_uid) :
       \A k \in 1..Len(schedules_by_uid[g].versions) :
         \E i \in 1..Len(feed) :
           /\ RunsOnTuesday(feed[i].days_run)
           /\ Variant(feed[i]) = schedules_by_uid[g].versions[k]
  /\ Returned =>
       /\ ~process_schedule(RunningRecords(feed)).raised
       /\ Built = process_schedule(RunningRecords(feed)).trains

\* A non-running Cancellation and a non-running New variant of X1 stand in
\* the feed with a running Permanent one, and X1's journey leaves at 08:00,
\* the Permanent variant's time.
C13_Witness ==
  /\ pc = "done"
  /\ \E i \in 1..Len(feed) : feed[i] = Sched("X1", "C", NotTuesday, "NT", StopsA)
  /\ \E i \in 1..Len(feed) : feed[i] = Sched("X1", "N", NotTuesday, "NT", StopsB)
  /\ \E t \in JourneysOf(data.trains, "X1") : t.path[1][3] = 8 * 3600

(***************************************************************************)
(* Properties of origin and destination names.                             *)
(***************************************************************************)
\* The station name of a declared stop, "?" when its code has no station.
DeclaredName(l) ==
  LET code == Strip(l.tiploc_code)
  IN IF code \in DOMAIN tiploc_to_crs /\ tiploc_to_crs[code] \in DOMAIN stations
     THEN stations[tiploc_to_crs[code]].name
     ELSE "?"

NamedAfterDeclaredEnds(t) ==
  LET w == feed[WinnerIdx(feed, t.id)]
  IN /\ t.from = DeclaredName(w.locations[1])
     /\ t.to = DeclaredName(w.locations[Len(w.locations)])

\* C14: from and to of an emitted journey are the station names of the first
\* and the last stop of the winning variant in declared order, whatever the
\* time-sorted path starts and ends with and whether or not those two stops
\* are in the path.
C14_NamesFromDeclaredEnds ==
  /\ \A i \in 1..Len(Built) : NamedAfterDeclaredEnds(Built[i])
  /\ pc = "done" => \A j \in 1..Len(data.trains) : NamedAfterDeclaredEnds(data.trains[j])

\* One journey whose declared first stop (Bravo, 08:30) is last in its path
\* and whose declared last stop (Alpha, 08:00) is first, and one journey whose
\* declared last stop (Charlie) has no time and is not in its path.
C14_Witness ==
  /\ pc = "main"
  /\ \E i \in 1..Len(trains) :
       /\ trains[i].from = "Bravo" /\ trains[i].to = "Alpha"
       /\ trains[i].path[1] = Waypoint(stations["AAA"], 8 * 3600)
       /\ trains[i].path[Len(trains[i].path)] =
            Waypoint(stations["BBB"], 8 * 3600 + 30 * 60)
  /\ \E i \in 1..Len(trains) :
       /\ trains[i].to = "Charlie"
       /\ \A k \in 1..Len(trains[i].path) :
            trains[i].path[k][1] # PyRound(stations["CCC"].lng, 10)

(***************************************************************************)
(* Properties of stop failures.                                            *)
(***************************************************************************)
\* A stop with a station (code in the code->identifier table, identifier in
\* the identifier->metadata table) and a time (one of its tokens decodes).
HasStation(l) ==
  /\ Strip(l.tiploc_code) \in DOMAIN tiploc_to_crs
  /\ tiploc_to_crs[Strip(l.tiploc_code)] \in DOMAIN stations

HasTime(l) == FirstDecoded(l) # None

ExpectedWaypoint(l) ==
  Waypoint(stations[tiploc_to_crs[Strip(l.tiploc_code)]], FirstDecoded(l)[1])

\* The groups whose resolution has ended, the one that ended the run in an
\* exception included.
AttemptedGroups ==
  ResolvedGroups \cup (IF pc = "raised" THEN {group_idx} ELSE {})

\* C15: for a winning variant that is not a Cancellation, the emitted path
\* holds exactly one waypoint for each stop with a station and a resolvable
\* time and none for any other stop, and the journey is emitted whenever at
\* least 2 such stops remain.
C15_SoftStopFailures ==
  \A g \in AttemptedGroups :
    LET best == schedules_by_uid[g].versions[1]
        usable == {i \in 1..Len(best.locations) :
                     HasStation(best.locations[i]) /\ HasTime(best.locations[i])}
        emitted == JourneysOf(Built, schedules_by_uid[g].uid)
    IN best.stp # "C" =>
         /\ Cardinality(usable) >= 2 => emitted # {}
         /\ \A t \in emitted :
              /\ Len(t.path) = Cardinality(usable)
              /\ \A i \in usable :
                   \E k \in 1..Len(t.path) :
                     t.path[k] = ExpectedWaypoint(best.locations[i])
              /\ \A k \in 1..Len(t.path) :
                   \E i \in usable :
                     t.path[k] = ExpectedWaypoint(best.locations[i])

====
